---- MODULE Spec2Model ----
(***************************************************************************)
(* Model of BLS.py: the worker pool of multi_thread_check (coordinator,    *)
(* worker_check threads, the two queue.Queue objects), the evaluation      *)
(* function simulate_check, the real-integration stub real_book_request    *)
(* and the attempt-book command handler.                                   *)
(*                                                                         *)
(* Text is a sequence of one-character strings, so that formatting and     *)
(* parsing are computed character by character as the code does.           *)
(***************************************************************************)
EXTENDS Integers, Sequences, FiniteSets, TLC

\* ------------------------------------------------------------------ bounds
\* Largest number of records handed to multi_thread_check.
MaxRecs == 2
\* Largest requested worker count (the threads argument).
MaxThreads == 2

\* --------------------------------------------------------- python values
\* A Python object reduced to what the code inspects: its type and value.
PyInt(n) == [t |-> "int", v |-> n]
PyNone == [t |-> "NoneType", v |-> 0]

\* ------------------------------------------------------------------ text
Digits == <<"0", "1", "2", "3", "4", "5", "6", "7", "8", "9">>

IsDigit(c) == \E i \in 1..10 : Digits[i] = c

DigitVal(c) == (CHOOSE i \in 1..10 : Digits[i] = c) - 1

\* ord(c) for the characters that occur in the model's texts.
Ord(c) ==
  IF IsDigit(c) THEN 48 + DigitVal(c)
  ELSE CASE c = " " -> 32
         [] c = "$" -> 36
         [] c = "-" -> 45
         [] c = "/" -> 47
         [] c = ":" -> 58
         [] c = "x" -> 120
         [] c = "|" -> 124
         [] OTHER -> 63

\* str(n) for an integer n: decimal digits, '-' for negatives.
RECURSIVE NatToText(_)
NatToText(n) ==
  IF n < 10 THEN <<Digits[n + 1]>>
  ELSE NatToText(n \div 10) \o <<Digits[(n % 10) + 1]>>

IntToText(n) == IF n < 0 THEN <<"-">> \o NatToText(0 - n) ELSE NatToText(n)

\* str(v) of a Python value inside an f-string.
PyStr(v) == IF v.t = "int" THEN IntToText(v.v) ELSE <<"N", "o", "n", "e">>

\* text.split(sep): the pieces between separators, empty pieces included.
RECURSIVE Split(_, _)
Split(t, sep) ==
  IF t = <<>> THEN << <<>> >>
  ELSE LET rest == Split(Tail(t), sep) IN
       IF Head(t) = sep THEN << <<>> >> \o rest
       ELSE << <<Head(t)>> \o Head(rest) >> \o Tail(rest)

\* text.lstrip(ch): every leading ch removed.
RECURSIVE LStrip(_, _)
LStrip(t, ch) ==
  IF t # <<>> /\ Head(t) = ch THEN LStrip(Tail(t), ch) ELSE t

RECURSIVE RStrip(_, _)
RStrip(t, ch) ==
  IF t # <<>> /\ t[Len(t)] = ch THEN RStrip(SubSeq(t, 1, Len(t) - 1), ch) ELSE t

\* text.strip(): surrounding white space removed.
Strip(t) == RStrip(LStrip(t, " "), " ")

RECURSIVE DigitsValue(_)
DigitsValue(t) ==
  IF t = <<>> THEN 0 ELSE 10 * DigitsValue(SubSeq(t, 1, Len(t) - 1)) + DigitVal(t[Len(t)])

AllDigits(t) == t # <<>> /\ \A k \in 1..Len(t) : IsDigit(t[k])

\* int(text): [ok, v]; ok is FALSE where int raises ValueError. White space
\* around the number and one leading sign are accepted.
ParseInt(t) ==
  LET s == Strip(t)
      neg == s # <<>> /\ Head(s) = "-"
      body == IF s # <<>> /\ Head(s) \in {"-", "+"} THEN Tail(s) ELSE s
  IN IF AllDigits(body)
       THEN [ok |-> TRUE, v |-> IF neg THEN 0 - DigitsValue(body) ELSE DigitsValue(body)]
       ELSE [ok |-> FALSE, v |-> 0]

\* ---------------------------------------------------------------- records
\* BLSRecord: code, expiry, ref are texts, balance a Python value.
BLSRecord(code, expiry, ref, balance) ==
  [code |-> code, expiry |-> expiry, ref |-> ref, balance |-> balance]

\* BLSRecord.__str__: code|expiry|ref|$balance
RecordStr(r) ==
  r.code \o <<"|">> \o r.expiry \o <<"|">> \o r.ref \o <<"|", "$">> \o PyStr(r.balance)

\* ------------------------------------------------------------ simulate_check
ScoreThreshold == 85
BalanceCutoff == 120

\* seed = sum(ord(c) for c in record.code)
RECURSIVE Seed(_)
Seed(code) == IF code = <<>> THEN 0 ELSE Ord(Head(code)) + Seed(Tail(code))

\* rnd = (seed % 100) / 100.0, kept in hundredths.
Rnd100(r) == Seed(r.code) % 100

HitPrefix == <<"H", "I", "T", ":", " ">>

\* Faulty variant of Decide: the balance test is strict.
Decide_StrictBalance(r) ==
  IF Rnd100(r) > ScoreThreshold THEN "hit"
  ELSE IF r.balance.t # "int" THEN "raise"
  ELSE IF r.balance.v > BalanceCutoff THEN "hit"
  ELSE "none"

\* The accept/reject decision of line 133; "raise" when the comparison of a
\* non-integer balance with 120 throws TypeError (reached only when the
\* score test is false: `or` short-circuits).
Decide(r) ==
  IF Rnd100(r) > ScoreThreshold THEN "hit"
  ELSE IF r.balance.t # "int" THEN "raise"
  ELSE IF r.balance.v >= BalanceCutoff THEN "hit"
  ELSE "none"

\* simulate_check(record): [tag, line] with tag "hit" (line is the HIT
\* string), "none" (returns None) or "raise" (an exception leaves the call).
simulate_check(r) ==
  LET d == Decide(r) IN
  IF d = "hit" THEN [tag |-> "hit", line |-> HitPrefix \o RecordStr(r)]
  ELSE [tag |-> d, line |-> <<>>]

\* ------------------------------------------------------- sample inputs
CodeHigh == <<"0", "0">>
CodeLow == <<"2", "2">>
Expiry1 == <<"0", "1", "/", "2", "0", "2", "5">>
Ref1 == <<"7">>

RecByScore == BLSRecord(CodeHigh, Expiry1, Ref1, PyInt(10))
RecByBalance == BLSRecord(CodeLow, Expiry1, Ref1, PyInt(120))
RecRejected == BLSRecord(CodeLow, Expiry1, Ref1, PyInt(69))
RecBadBalance == BLSRecord(CodeLow, Expiry1, Ref1, PyNone)
\* seed 285: rnd is exactly 0.85, which is not above the threshold.
CodeEdge == <<"9", "9", "9", "9", "9">>
RecScoreEdge == BLSRecord(CodeEdge, Expiry1, Ref1, PyInt(10))

\* Records as the command layer builds them: balance is always int(bal).
WellFormedRecords == {RecByScore, RecByBalance, RecRejected, RecScoreEdge}
\* Records a direct caller of multi_thread_check may pass.
AnyRecords == WellFormedRecords \cup {RecBadBalance}

OldHitLine == HitPrefix \o RecordStr(RecByBalance)
HitsFiles == {<<>>, <<OldHitLine>>}

SeqsUpTo(S, n) == UNION {[1..k -> S] : k \in 0..n}

Min2(a, b) == IF a <= b THEN a ELSE b

\* ------------------------------------------------------------------ state
VARIABLES
  records,    \* multi_thread_check: the records argument
  threads,    \* multi_thread_check: the threads argument
  hitsFile,   \* lines of VALID_OUTPUT_FILE
  hits0,      \* lines of VALID_OUTPUT_FILE when the operation began
  cpc,        \* coordinator's position in multi_thread_check
  q,          \* task queue: indices into records, FIFO
  unfinished, \* q.unfinished_tasks
  out_q,      \* result queue: HIT strings, FIFO
  started,    \* number of worker threads started so far
  found,      \* the list multi_thread_check builds and returns
  wpc,        \* each worker's position in worker_check
  wrec,       \* the record (index) a worker holds, 0 if none
  wres,       \* the result of the worker's simulate_check call
  claims,     \* history: get_nowait deliveries per record index
  evals,      \* history: simulate_check calls per record index
  dones,      \* history: task_done calls
  puts,       \* history: out_q.put calls
  arrivals,   \* history: the strings put on out_q, in the order of the puts
  enabled,    \* REAL_INTEGRATION_ENABLED
  listFile,   \* the input file of attempt-book: [exists, lines]
  attempts,   \* args.attempts
  use_real,   \* args.use_real
  bpc,        \* position in handle_attempt_book
  lines,      \* handle_attempt_book: the stripped non-empty lines read
  sample,     \* handle_attempt_book: the sampled lines
  pos,        \* handle_attempt_book: sampled lines attempted so far
  reports,    \* what was printed for each attempt, in order
  exc,        \* the exception that left the handler, "none" if none
  stubRec,    \* direct call of real_book_request: its record argument
  stubRes,    \* direct call of real_book_request: its outcome
  cmd,        \* main: the command being run, "none" between commands
  ncmds,      \* history: number of commands started
  hpc,        \* position in handle_generate / handle_simulate_check
  count,      \* args.count of generate
  genRecs     \* history: the records of the last generate_blscodes call

poolVars == <<records, threads, hitsFile, hits0, cpc, q, unfinished, out_q,
              started, found, wpc, wrec, wres, claims, evals, dones, puts, arrivals>>

cmdVars == <<cmd, ncmds, hpc, count, genRecs>>

bookVars == <<enabled, listFile, attempts, use_real, bpc, lines, sample, pos,
              reports, exc, stubRec, stubRes, cmdVars>>

poolOnlyVars == <<records, threads, cpc, q, unfinished, out_q, started, found,
                  wpc, wrec, wres, claims, evals, dones, puts, arrivals>>

Workers == 1..MaxThreads

NoResult == [tag |-> "none", line |-> <<>>]

\* State on entry to multi_thread_check(recs, thr): lines 151-152.
PoolEntry(recs, thr, hits) ==
  /\ records = recs
  /\ threads = thr
  /\ hitsFile = hits
  /\ hits0 = hits
  /\ cpc = "put"
  /\ q = <<>>
  /\ unfinished = 0
  /\ out_q = <<>>
  /\ started = 0
  /\ found = <<>>
  /\ wpc = [w \in Workers |-> "unstarted"]
  /\ wrec = [w \in Workers |-> 0]
  /\ wres = [w \in Workers |-> NoResult]
  /\ claims = [i \in 1..Len(recs) |-> 0]
  /\ evals = [i \in 1..Len(recs) |-> 0]
  /\ dones = 0
  /\ puts = 0
  /\ arrivals = <<>>

\* ------------------------------------------------------------ coordinator
\* for r in records: q.put(r)   (Queue.put also counts the task as unfinished)
PutRecords ==
  /\ cpc = "put"
  /\ IF Len(q) < Len(records)
       THEN /\ q' = Append(q, Len(q) + 1)
            /\ unfinished' = unfinished + 1
            /\ cpc' = cpc
       ELSE /\ cpc' = "start"
            /\ UNCHANGED <<q, unfinished>>
  /\ UNCHANGED bookVars
  /\ UNCHANGED <<records, threads, hitsFile, hits0, out_q, started, found,
                 wpc, wrec, wres, claims, evals, dones, puts, arrivals>>

\* Faulty variants of NumWorkers: the clamp left out; max taken for min.
NumWorkers_NoClamp(thr, n) == thr

NumWorkers_Max(thr, n) == IF thr >= n THEN thr ELSE n

\* range(min(threads, len(records)))
NumWorkers(thr, n) == Min2(thr, n)

\* One iteration of the start loop: Thread(...).start(); the new thread is
\* runnable at once, while the coordinator goes on starting the others.
StartWorkers ==
  /\ cpc = "start"
  /\ IF started < NumWorkers(threads, Len(records))
       THEN /\ started' = started + 1
            /\ wpc' = [wpc EXCEPT ![started + 1] = "get"]
            /\ cpc' = cpc
       ELSE /\ cpc' = "join"
            /\ UNCHANGED <<started, wpc>>
  /\ UNCHANGED bookVars
  /\ UNCHANGED <<records, threads, hitsFile, hits0, q, unfinished, out_q,
                 found, wrec, wres, claims, evals, dones, puts, arrivals>>

\* Faulty variant of JoinReleased: the coordinator does not wait at all.
JoinReleased_NoWait(u) == TRUE

\* Queue.join(): blocks while unfinished_tasks is not zero.
JoinReleased(u) == u = 0

Join ==
  /\ cpc = "join"
  /\ JoinReleased(unfinished)
  /\ cpc' = "drain"
  /\ UNCHANGED bookVars
  /\ UNCHANGED <<records, threads, hitsFile, hits0, q, unfinished, out_q,
                 started, found, wpc, wrec, wres, claims, evals, dones, puts, arrivals>>

\* Faulty variant of Drain: each outcome is inserted at the front of found.
Drain_Prepend ==
  /\ cpc = "drain"
  /\ IF out_q # <<>>
       THEN /\ found' = <<Head(out_q)>> \o found
            /\ out_q' = Tail(out_q)
            /\ cpc' = cpc
       ELSE /\ cpc' = "write"
            /\ UNCHANGED <<found, out_q>>
  /\ UNCHANGED bookVars
  /\ UNCHANGED <<records, threads, hitsFile, hits0, q, unfinished, started,
                 wpc, wrec, wres, claims, evals, dones, puts, arrivals>>

\* while not out_q.empty(): found.append(out_q.get())
Drain ==
  /\ cpc = "drain"
  /\ IF out_q # <<>>
       THEN /\ found' = Append(found, Head(out_q))
            /\ out_q' = Tail(out_q)
            /\ cpc' = cpc
       ELSE /\ cpc' = "write"
            /\ UNCHANGED <<found, out_q>>
  /\ UNCHANGED bookVars
  /\ UNCHANGED <<records, threads, hitsFile, hits0, q, unfinished, started,
                 wpc, wrec, wres, claims, evals, dones, puts, arrivals>>

\* if found: append every line to VALID_OUTPUT_FILE; then return found.
\* Faulty variant of AppendHits: the file is opened for writing, not appending.
AppendHits_Overwrite(file, hitLines) == IF hitLines # <<>> THEN hitLines ELSE file

AppendHits(file, hitLines) == IF hitLines # <<>> THEN file \o hitLines ELSE file

WriteAndReturn ==
  /\ cpc = "write"
  /\ hitsFile' = AppendHits(hitsFile, found)
  /\ cpc' = "returned"
  /\ UNCHANGED bookVars
  /\ UNCHANGED <<records, threads, hits0, q, unfinished, out_q, started,
                 found, wpc, wrec, wres, claims, evals, dones, puts, arrivals>>

\* ----------------------------------------------------------------- workers
\* Faulty variant of GetNowait: the head is read but not removed from the queue.
GetNowait_NoPop(w) ==
  /\ wpc[w] = "get"
  /\ IF q = <<>>
       THEN /\ wpc' = [wpc EXCEPT ![w] = "exited"]
            /\ UNCHANGED <<wrec, claims>>
       ELSE /\ wrec' = [wrec EXCEPT ![w] = Head(q)]
            /\ claims' = [claims EXCEPT ![Head(q)] = @ + 1]
            /\ wpc' = [wpc EXCEPT ![w] = "check"]
  /\ UNCHANGED bookVars
  /\ UNCHANGED <<records, threads, hitsFile, hits0, cpc, q, unfinished, out_q,
                 started, found, wres, evals, dones, puts, arrivals>>

\* Faulty variant of GetNowait: the task is marked done as soon as it is claimed.
GetNowait_EarlyDone(w) ==
  /\ wpc[w] = "get"
  /\ IF q = <<>>
       THEN /\ wpc' = [wpc EXCEPT ![w] = "exited"]
            /\ UNCHANGED <<q, wrec, claims, unfinished>>
       ELSE /\ wrec' = [wrec EXCEPT ![w] = Head(q)]
            /\ q' = Tail(q)
            /\ claims' = [claims EXCEPT ![Head(q)] = @ + 1]
            /\ unfinished' = unfinished - 1
            /\ wpc' = [wpc EXCEPT ![w] = "check"]
  /\ UNCHANGED bookVars
  /\ UNCHANGED <<records, threads, hitsFile, hits0, cpc, out_q,
                 started, found, wres, evals, dones, puts, arrivals>>

\* Faulty variant of GetNowait: the queue stays locked while any worker is
\* inside simulate_check.
GetNowait_Serialized(w) ==
  /\ wpc[w] = "get"
  /\ \A v \in Workers : wpc[v] # "check"
  /\ IF q = <<>>
       THEN /\ wpc' = [wpc EXCEPT ![w] = "exited"]
            /\ UNCHANGED <<q, wrec, claims>>
       ELSE /\ wrec' = [wrec EXCEPT ![w] = Head(q)]
            /\ q' = Tail(q)
            /\ claims' = [claims EXCEPT ![Head(q)] = @ + 1]
            /\ wpc' = [wpc EXCEPT ![w] = "check"]
  /\ UNCHANGED bookVars
  /\ UNCHANGED <<records, threads, hitsFile, hits0, cpc, unfinished, out_q,
                 started, found, wres, evals, dones, puts, arrivals>>

\* record = q.get_nowait(); on queue.Empty the worker returns.
GetNowait(w) ==
  /\ wpc[w] = "get"
  /\ IF q = <<>>
       THEN /\ wpc' = [wpc EXCEPT ![w] = "exited"]
            /\ UNCHANGED <<q, wrec, claims>>
       ELSE /\ wrec' = [wrec EXCEPT ![w] = Head(q)]
            /\ q' = Tail(q)
            /\ claims' = [claims EXCEPT ![Head(q)] = @ + 1]
            /\ wpc' = [wpc EXCEPT ![w] = "check"]
  /\ UNCHANGED bookVars
  /\ UNCHANGED <<records, threads, hitsFile, hits0, cpc, unfinished, out_q,
                 started, found, wres, evals, dones, puts, arrivals>>

\* Faulty variant of AfterCheck: the `if result:` test left out.
AfterCheck_PutAlways(tag) == IF tag = "raise" THEN "died" ELSE "out_put"

\* Faulty variant of AfterCheck: task_done is called only after a hit.
AfterCheck_DoneOnlyOnHit(tag) ==
  CASE tag = "raise" -> "died"
    [] tag = "hit" -> "out_put"
    [] OTHER -> "get"

\* Where worker_check goes after simulate_check: an exception is not caught
\* (the thread ends), a truthy result is put on out_q, None goes to task_done.
AfterCheck(tag) ==
  CASE tag = "raise" -> "died"
    [] tag = "hit" -> "out_put"
    [] OTHER -> "task_done"

\* result = simulate_check(record)
Check(w) ==
  /\ wpc[w] = "check"
  /\ LET res == simulate_check(records[wrec[w]]) IN
       /\ wres' = [wres EXCEPT ![w] = res]
       /\ wpc' = [wpc EXCEPT ![w] = AfterCheck(res.tag)]
  /\ evals' = [evals EXCEPT ![wrec[w]] = @ + 1]
  /\ UNCHANGED bookVars
  /\ UNCHANGED <<records, threads, hitsFile, hits0, cpc, q, unfinished, out_q,
                 started, found, wrec, claims, dones, puts, arrivals>>

\* Faulty variant of OutPut: the worker also writes the hit to the file.
OutPut_Streaming(w) ==
  /\ wpc[w] = "out_put"
  /\ out_q' = Append(out_q, wres[w].line)
  /\ puts' = puts + 1
  /\ arrivals' = Append(arrivals, wres[w].line)
  /\ hitsFile' = Append(hitsFile, wres[w].line)
  /\ wpc' = [wpc EXCEPT ![w] = "task_done"]
  /\ UNCHANGED bookVars
  /\ UNCHANGED <<records, threads, hits0, cpc, q, unfinished,
                 started, found, wrec, wres, claims, evals, dones>>

\* out_q.put(result)
OutPut(w) ==
  /\ wpc[w] = "out_put"
  /\ out_q' = Append(out_q, wres[w].line)
  /\ puts' = puts + 1
  /\ arrivals' = Append(arrivals, wres[w].line)
  /\ wpc' = [wpc EXCEPT ![w] = "task_done"]
  /\ UNCHANGED bookVars
  /\ UNCHANGED <<records, threads, hitsFile, hits0, cpc, q, unfinished,
                 started, found, wrec, wres, claims, evals, dones>>

\* q.task_done(), then back to the top of the loop.
\* (Queue.task_done raises ValueError when called more often than put.)
TaskDone(w) ==
  /\ wpc[w] = "task_done"
  /\ dones' = dones + 1
  /\ IF unfinished > 0
       THEN /\ unfinished' = unfinished - 1
            /\ wrec' = [wrec EXCEPT ![w] = 0]
            /\ wres' = [wres EXCEPT ![w] = NoResult]
            /\ wpc' = [wpc EXCEPT ![w] = "get"]
       ELSE /\ wpc' = [wpc EXCEPT ![w] = "died"]
            /\ UNCHANGED <<unfinished, wrec, wres>>
  /\ UNCHANGED bookVars
  /\ UNCHANGED <<records, threads, hitsFile, hits0, cpc, q, out_q, started,
                 found, claims, evals, puts, arrivals>>

Worker(w) == GetNowait(w) \/ Check(w) \/ OutPut(w) \/ TaskDone(w)

\* ------------------------------------------------------ real_book_request
NotCalled == [tag |-> "pending", exc |-> "none"]

\* Faulty variant of real_book_request: the enabled path answers instead of raising.
real_book_request_Answers(record, en) ==
  IF ~en THEN [tag |-> "raise", exc |-> "RuntimeError"]
  ELSE [tag |-> "return", exc |-> "none"]

\* real_book_request(record, user_data) under REAL_INTEGRATION_ENABLED = en:
\* how the call ends. It has no return statement: it raises RuntimeError
\* when the flag is off and NotImplementedError otherwise.
real_book_request(record, en) ==
  IF ~en THEN [tag |-> "raise", exc |-> "RuntimeError"]
  ELSE [tag |-> "raise", exc |-> "NotImplementedError"]

\* A direct call real_book_request(stubRec, {}).
CallRealBookRequest ==
  /\ stubRes = NotCalled
  /\ stubRes' = real_book_request(stubRec, enabled)
  /\ UNCHANGED <<enabled, listFile, attempts, use_real, bpc, lines, sample,
                 pos, reports, exc, stubRec>>
  /\ UNCHANGED poolVars
  /\ UNCHANGED cmdVars

\* ---------------------------------------------------- handle_attempt_book
\* Largest number of lines in the input file.
MaxLines == 2
\* Largest value of --attempts.
MaxAttempts == 2

LineShort == CodeLow \o <<"|">> \o Expiry1
LineBadBalance == CodeLow \o <<"|">> \o Expiry1 \o <<"|">> \o Ref1 \o <<"|", "$", "x">>
LineBlank == <<" ">>

\* Lines an input file may hold: written by the generator, or not.
SampleLines ==
  {RecordStr(RecByBalance), RecordStr(RecRejected), LineShort, LineBadBalance, LineBlank}

MissingFile == [exists |-> FALSE, lines |-> <<>>]

ListFiles ==
  {MissingFile} \cup {[exists |-> TRUE, lines |-> ls] : ls \in SeqsUpTo(SampleLines, MaxLines)}

\* "SIM-" + random_string(8)
ApptIds ==
  { <<"S", "I", "M", "-", "0", "0", "0", "0", "0", "0", "0", d>> : d \in {"1", "2"} }

BookedPrefix == <<"B", "O", "O", "K", "E", "D", "_", "S", "I", "M", "|">>

\* f"BOOKED_SIM|{appointment_id}|{record}"
BookedLine(id, r) == BookedPrefix \o id \o <<"|">> \o RecordStr(r)

\* [line.strip() for line in f if line.strip()]
StrippedLines(fl) ==
  SelectSeq([k \in 1..Len(fl) |-> Strip(fl[k])], LAMBDA l : l # <<>>)

Report(kind, e, appt) == [kind |-> kind, exc |-> e, appt |-> appt]

\* State on entry to handle_attempt_book.
BookEntry(en, file, att, real) ==
  /\ enabled = en
  /\ listFile = file
  /\ attempts = att
  /\ use_real = real
  /\ bpc = "open"
  /\ lines = <<>>
  /\ sample = <<>>
  /\ pos = 0
  /\ reports = <<>>
  /\ exc = "none"
  /\ stubRec = RecRejected
  /\ stubRes = NotCalled
  /\ cmd = "attempt-book"
  /\ ncmds = 1
  /\ hpc = "idle"
  /\ count = 0
  /\ genRecs = <<>>

\* Lines 253-258: read the file; a missing file is reported and the handler
\* returns.
AB_Open ==
  /\ bpc = "open"
  /\ IF listFile.exists
       THEN /\ lines' = StrippedLines(listFile.lines)
            /\ bpc' = "sample"
            /\ UNCHANGED reports
       ELSE /\ reports' = Append(reports, Report("input_not_found", "FileNotFoundError", <<>>))
            /\ bpc' = "returned"
            /\ UNCHANGED lines
  /\ UNCHANGED <<enabled, listFile, attempts, use_real, sample, pos, exc,
                 stubRec, stubRes>>
  /\ UNCHANGED poolVars
  /\ UNCHANGED cmdVars

\* The k-element samples of a list: k distinct positions, in any order.
Samples(ls, k) ==
  { [j \in 1..k |-> ls[f[j]]] :
      f \in {g \in [1..k -> 1..Len(ls)] : \A a, b \in 1..k : a # b => g[a] # g[b]} }

\* Line 260: random.sample(lines, min(args.attempts, len(lines))); a negative
\* size raises ValueError, which leaves the handler.
AB_Sample ==
  /\ bpc = "sample"
  /\ LET k == Min2(attempts, Len(lines)) IN
       IF k < 0
         THEN /\ exc' = "ValueError"
              /\ bpc' = "aborted"
              /\ UNCHANGED sample
         ELSE /\ sample' \in Samples(lines, k)
              /\ bpc' = "attempt"
              /\ UNCHANGED exc
  /\ UNCHANGED <<enabled, listFile, attempts, use_real, lines, pos, reports,
                 stubRec, stubRes>>
  /\ UNCHANGED poolVars
  /\ UNCHANGED cmdVars

\* Which branch of line 266 is taken.
UsesRealIntegration(en, real) == en /\ real

\* real_book_request_simulation_placeholder: ok = random.random() > 0.78 or
\* record.balance >= 120; lucky is the outcome of the random draw.
PlaceholderOk(r, lucky) == lucky \/ r.balance.v >= BalanceCutoff

\* One iteration of the loop of lines 261-279, or the end of the loop.
AB_Attempt ==
  /\ bpc = "attempt"
  /\ IF pos = Len(sample)
       THEN /\ bpc' = "returned"
            /\ UNCHANGED <<pos, reports, exc, hitsFile>>
       ELSE LET parts == Split(sample[pos + 1], "|") IN
            IF Len(parts) < 4
              THEN \* parts[3] raises IndexError
                   /\ exc' = "IndexError"
                   /\ bpc' = "aborted"
                   /\ UNCHANGED <<pos, reports, hitsFile>>
              ELSE LET bal == ParseInt(LStrip(parts[4], "$")) IN
                   IF ~bal.ok
                     THEN \* int(bal) raises ValueError
                          /\ exc' = "ValueError"
                          /\ bpc' = "aborted"
                          /\ UNCHANGED <<pos, reports, hitsFile>>
                     ELSE LET record == BLSRecord(parts[1], parts[2], parts[3], PyInt(bal.v)) IN
                          /\ pos' = pos + 1
                          /\ UNCHANGED <<bpc, exc>>
                          /\ IF UsesRealIntegration(enabled, use_real)
                               THEN LET res == real_book_request(record, enabled) IN
                                    /\ reports' = Append(reports,
                                         IF res.tag = "raise"
                                           THEN Report("real_failed", res.exc, <<>>)
                                           ELSE Report("real_response", "none", <<>>))
                                    /\ UNCHANGED hitsFile
                               ELSE \E lucky \in BOOLEAN, id \in ApptIds :
                                      IF PlaceholderOk(record, lucky)
                                        THEN /\ reports' = Append(reports, Report("sim_success", "none", id))
                                             /\ hitsFile' = Append(hitsFile, BookedLine(id, record))
                                        ELSE /\ reports' = Append(reports, Report("sim_fail", "none", <<>>))
                                             /\ UNCHANGED hitsFile
  /\ UNCHANGED <<enabled, listFile, attempts, use_real, lines, sample,
                 stubRec, stubRes>>
  /\ UNCHANGED <<hits0, poolOnlyVars>>
  /\ UNCHANGED cmdVars

\* The pool when multi_thread_check is not running.
PoolIdle(hits) ==
  /\ records = <<>>
  /\ threads = 0
  /\ hitsFile = hits
  /\ hits0 = hits
  /\ cpc = "idle"
  /\ q = <<>>
  /\ unfinished = 0
  /\ out_q = <<>>
  /\ started = 0
  /\ found = <<>>
  /\ wpc = [w \in Workers |-> "unstarted"]
  /\ wrec = [w \in Workers |-> 0]
  /\ wres = [w \in Workers |-> NoResult]
  /\ claims = <<>>
  /\ evals = <<>>
  /\ dones = 0
  /\ puts = 0
  /\ arrivals = <<>>

\* The booking side when attempt-book is not running; the flag has the
\* value the source gives it.
BookIdle ==
  /\ enabled = FALSE
  /\ listFile = MissingFile
  /\ attempts = 0
  /\ use_real = FALSE
  /\ bpc = "idle"
  /\ lines = <<>>
  /\ sample = <<>>
  /\ pos = 0
  /\ reports = <<>>
  /\ exc = "none"
  /\ stubRec = RecRejected
  /\ stubRes = NotCalled
  /\ cmd = "none"
  /\ ncmds = 0
  /\ hpc = "idle"
  /\ count = 0
  /\ genRecs = <<>>

\* ------------------------------------------------------------ command layer
\* Largest number of commands run one after the other.
MaxCmds == 2
\* Largest value of --count.
MaxGen == 2

Max2(a, b) == IF a >= b THEN a ELSE b

\* Lines 114-116: str(r) for each record, one per line.
GenLines(recs) == [i \in 1..Len(recs) |-> RecordStr(recs[i])]

\* main dispatching "generate --count n".
StartGenerate ==
  /\ cmd = "none"
  /\ ncmds < MaxCmds
  /\ cmd' = "generate"
  /\ ncmds' = ncmds + 1
  /\ hpc' = "gen"
  /\ count' \in 0..MaxGen
  /\ hits0' = hitsFile
  /\ UNCHANGED <<enabled, listFile, attempts, use_real, bpc, lines, sample,
                 pos, reports, exc, stubRec, stubRes, genRecs>>
  /\ UNCHANGED <<hitsFile, poolOnlyVars>>

\* handle_generate: max(1, count) records of shapes drawn from shapes,
\* written over OUTPUT_FILE.
HandleGenerate(shapes) ==
  /\ cmd = "generate"
  /\ hpc = "gen"
  /\ \E recs \in [1..Max2(1, count) -> shapes] :
       /\ genRecs' = recs
       /\ listFile' = [exists |-> TRUE, lines |-> GenLines(recs)]
  /\ hpc' = "done"
  /\ UNCHANGED <<enabled, attempts, use_real, bpc, lines, sample, pos,
                 reports, exc, stubRec, stubRes, cmd, ncmds, count>>
  /\ UNCHANGED poolVars

\* main dispatching "simulate-check --threads t" (input: OUTPUT_FILE).
StartSimulateCheck ==
  /\ cmd = "none"
  /\ ncmds < MaxCmds
  /\ cmd' = "simulate-check"
  /\ ncmds' = ncmds + 1
  /\ hpc' = "load"
  /\ threads' \in 0..MaxThreads
  /\ hits0' = hitsFile
  /\ UNCHANGED <<enabled, listFile, attempts, use_real, bpc, lines, sample,
                 pos, reports, exc, stubRec, stubRes, count, genRecs>>
  /\ UNCHANGED <<records, hitsFile, cpc, q, unfinished, out_q, started, found,
                 wpc, wrec, wres, claims, evals, dones, puts, arrivals>>

\* Line 241: if len(parts) >= 4
ReaderKeeps(l) == Len(Split(l, "|")) >= 4

\* Faulty variant of ParseRecord: the leading '$' is not stripped.
ParseRecord_NoLStrip(l) ==
  LET parts == Split(l, "|")
      bal == ParseInt(parts[4])
  IN [ok |-> bal.ok,
      rec |-> BLSRecord(parts[1], parts[2], parts[3], PyInt(bal.v))]

\* Lines 242-243 for a line with at least 4 fields: [ok, rec]; ok is FALSE
\* where int(bal) raises ValueError.
ParseRecord(l) ==
  LET parts == Split(l, "|")
      bal == ParseInt(LStrip(parts[4], "$"))
  IN [ok |-> bal.ok,
      rec |-> BLSRecord(parts[1], parts[2], parts[3], PyInt(bal.v))]

\* Lines 235-246 up to the call of multi_thread_check: read the file, build
\* the records, enter multi_thread_check. A missing file is reported and the
\* handler returns; a ValueError of int(bal) leaves the handler.
SC_Load ==
  /\ cmd = "simulate-check"
  /\ hpc = "load"
  /\ IF ~listFile.exists
       THEN /\ reports' = Append(reports, Report("input_not_found", "FileNotFoundError", <<>>))
            /\ hpc' = "done"
            /\ UNCHANGED <<lines, exc, records, cpc, claims, evals>>
       ELSE LET ls == StrippedLines(listFile.lines)
                kept == SelectSeq(ls, ReaderKeeps)
            IN /\ lines' = ls
               /\ IF \E k \in 1..Len(kept) : ~ParseRecord(kept[k]).ok
                    THEN /\ exc' = "ValueError"
                         /\ hpc' = "aborted"
                         /\ UNCHANGED <<reports, records, cpc, claims, evals>>
                    ELSE /\ records' = [k \in 1..Len(kept) |-> ParseRecord(kept[k]).rec]
                         /\ claims' = [k \in 1..Len(kept) |-> 0]
                         /\ evals' = [k \in 1..Len(kept) |-> 0]
                         /\ cpc' = "put"
                         /\ hpc' = "pool"
                         /\ UNCHANGED <<reports, exc>>
  /\ UNCHANGED <<enabled, listFile, attempts, use_real, bpc, sample, pos,
                 stubRec, stubRes, cmd, ncmds, count, genRecs>>
  /\ UNCHANGED <<threads, hitsFile, hits0, q, unfinished, out_q, started,
                 found, wpc, wrec, wres, dones, puts, arrivals>>

\* Line 247: multi_thread_check has returned; the handler prints and returns.
SC_Finish ==
  /\ cmd = "simulate-check"
  /\ hpc = "pool"
  /\ cpc = "returned"
  /\ hpc' = "done"
  /\ UNCHANGED <<enabled, listFile, attempts, use_real, bpc, lines, sample,
                 pos, reports, exc, stubRec, stubRes, cmd, ncmds, count, genRecs>>
  /\ UNCHANGED poolVars

\* main dispatching "attempt-book --attempts a [--use-real]".
StartAttemptBook ==
  /\ cmd = "none"
  /\ ncmds < MaxCmds
  /\ cmd' = "attempt-book"
  /\ ncmds' = ncmds + 1
  /\ bpc' = "open"
  /\ attempts' \in -1..MaxAttempts
  /\ use_real' \in BOOLEAN
  /\ hits0' = hitsFile
  /\ UNCHANGED <<enabled, listFile, lines, sample, pos, reports, exc,
                 stubRec, stubRes, hpc, count, genRecs>>
  /\ UNCHANGED <<hitsFile, poolOnlyVars>>

\* The handler of the running command has returned, or an exception left it
\* and main's except clause (lines 315-317) has reported it.
CommandOver ==
  /\ cmd # "none"
  /\ hpc \in {"done", "aborted"} \/ bpc \in {"returned", "aborted"}

\* The process ends; only the two files outlive it.
EndCommand ==
  /\ CommandOver
  /\ cmd' = "none"
  /\ hpc' = "idle"
  /\ bpc' = "idle"
  /\ count' = 0
  /\ attempts' = 0
  /\ use_real' = FALSE
  /\ lines' = <<>>
  /\ sample' = <<>>
  /\ pos' = 0
  /\ reports' = <<>>
  /\ exc' = "none"
  /\ records' = <<>>
  /\ threads' = 0
  /\ hits0' = hitsFile
  /\ cpc' = "idle"
  /\ q' = <<>>
  /\ unfinished' = 0
  /\ out_q' = <<>>
  /\ started' = 0
  /\ found' = <<>>
  /\ wpc' = [w \in Workers |-> "unstarted"]
  /\ wrec' = [w \in Workers |-> 0]
  /\ wres' = [w \in Workers |-> NoResult]
  /\ claims' = <<>>
  /\ evals' = <<>>
  /\ dones' = 0
  /\ puts' = 0
  /\ arrivals' = <<>>
  /\ UNCHANGED <<enabled, listFile, hitsFile, stubRec, stubRes, ncmds, genRecs>>

\* No command running; the record list is file, the flag has the source's
\* value.
CommandIdle(file) ==
  /\ enabled = FALSE
  /\ listFile = file
  /\ attempts = 0
  /\ use_real = FALSE
  /\ bpc = "idle"
  /\ lines = <<>>
  /\ sample = <<>>
  /\ pos = 0
  /\ reports = <<>>
  /\ exc = "none"
  /\ stubRec = RecRejected
  /\ stubRes = NotCalled
  /\ cmd = "none"
  /\ ncmds = 0
  /\ hpc = "idle"
  /\ count = 0
  /\ genRecs = <<>>

vars == <<poolVars, bookVars>>

\* ---------------------------------------------------------- specifications
\* multi_thread_check as the command layer calls it.
Init ==
  \E recs \in SeqsUpTo(WellFormedRecords, MaxRecs), thr \in 0..MaxThreads,
     hits \in HitsFiles :
    PoolEntry(recs, thr, hits) /\ BookIdle

Next ==
  \/ PutRecords
  \/ StartWorkers
  \/ Join
  \/ Drain
  \/ WriteAndReturn
  \/ \E w \in Workers : GetNowait(w)
  \/ \E w \in Workers : Check(w)
  \/ \E w \in Workers : OutPut(w)
  \/ \E w \in Workers : TaskDone(w)

Spec == Init /\ [][Next]_vars

\* multi_thread_check called with records of any build, among them one whose
\* balance is not a number.
InitAny ==
  \E recs \in SeqsUpTo(AnyRecords, MaxRecs), thr \in 0..MaxThreads,
     hits \in HitsFiles :
    PoolEntry(recs, thr, hits) /\ BookIdle

SpecAny == InitAny /\ [][Next]_vars

\* The attempt-book command, for either value of the flag.
InitBook ==
  \E en \in BOOLEAN, file \in ListFiles, att \in -1..MaxAttempts,
     real \in BOOLEAN, hits \in HitsFiles :
    BookEntry(en, file, att, real) /\ PoolIdle(hits)

NextBook == AB_Open \/ AB_Sample \/ AB_Attempt

SpecBook == InitBook /\ [][NextBook]_vars

\* real_book_request called directly, for either value of the flag.
Balances == {0, 10, 25, 69, 120, 180, 280}
Expiry2 == <<"1", "2", "/", "2", "0", "3", "0">>

StubRecords ==
  { BLSRecord(c, e, Ref1, PyInt(b)) :
      c \in {CodeHigh, CodeLow}, e \in {Expiry1, Expiry2}, b \in Balances }

InitStub ==
  \E en \in BOOLEAN, r \in StubRecords, hits \in HitsFiles :
    /\ PoolIdle(hits)
    /\ enabled = en
    /\ listFile = MissingFile
    /\ attempts = 0
    /\ use_real = FALSE
    /\ bpc = "idle"
    /\ lines = <<>>
    /\ sample = <<>>
    /\ pos = 0
    /\ reports = <<>>
    /\ exc = "none"
    /\ stubRec = r
    /\ stubRes = NotCalled
    /\ cmd = "none"
    /\ ncmds = 0
    /\ hpc = "idle"
    /\ count = 0
    /\ genRecs = <<>>

NextStub == CallRealBookRequest

SpecStub == InitStub /\ [][NextStub]_vars

\* Commands run one after the other on the same two files.
GenShapesSmall == {RecByBalance, RecRejected}

\* Record lists found on disk by the first command.
CmdFiles ==
  { MissingFile,
    [exists |-> TRUE, lines |-> <<RecordStr(RecByBalance), LineShort>>],
    [exists |-> TRUE, lines |-> <<LineShort, RecordStr(RecByBalance)>>],
    [exists |-> TRUE, lines |-> <<RecordStr(RecByBalance), LineBadBalance>>],
    [exists |-> TRUE, lines |-> <<RecordStr(RecRejected), LineBlank>>] }

InitCmd ==
  \E file \in CmdFiles : PoolIdle(<<OldHitLine>>) /\ CommandIdle(file)

NextCmd ==
  \/ StartGenerate
  \/ HandleGenerate(GenShapesSmall)
  \/ StartSimulateCheck
  \/ SC_Load
  \/ SC_Finish
  \/ StartAttemptBook
  \/ AB_Open
  \/ AB_Sample
  \/ AB_Attempt
  \/ EndCommand
  \/ PutRecords
  \/ StartWorkers
  \/ Join
  \/ Drain
  \/ WriteAndReturn
  \/ \E w \in Workers : GetNowait(w)
  \/ \E w \in Workers : Check(w)
  \/ \E w \in Workers : OutPut(w)
  \/ \E w \in Workers : TaskDone(w)

SpecCmd == InitCmd /\ [][NextCmd]_vars

\* generate followed by the reader of simulate-check, for records of the
\* generated shapes.
GeneratedShapes ==
  { BLSRecord(CodeLow, Expiry1, Ref1, PyInt(b)) : b \in Balances }
    \cup { BLSRecord(CodeHigh, Expiry2, Ref1, PyInt(0)) }

InitRound ==
  \E hits \in HitsFiles : PoolIdle(hits) /\ CommandIdle(MissingFile)

NextRound ==
  \/ StartGenerate
  \/ HandleGenerate(GeneratedShapes)
  \/ StartSimulateCheck
  \/ SC_Load
  \/ EndCommand

SpecRound == InitRound /\ [][NextRound]_vars

\* ------------------------------------------------------------------ claims
NRecords == Len(records)

\* Coordinator positions after the q.join() barrier.
PastBarrier == {"drain", "write", "returned"}

Count(seq, x) == Cardinality({k \in 1..Len(seq) : seq[k] = x})

Accepted == {i \in 1..NRecords : simulate_check(records[i]).tag = "hit"}

\* C1: for every record count N >= 0 and worker count W >= 0, the run of
\* multi_thread_check ends by returning: in every state it has returned or
\* some thread can still take a step (it never deadlocks at q.join()).
C1_AlwaysReturns == cpc = "returned" \/ ENABLED Next

\* C2: every record is claimed by at most one worker and evaluated at most
\* once, no two workers hold the same record, and when the run has returned
\* every record has been claimed and evaluated exactly once.
C2_ExactlyOnce ==
  /\ \A i \in 1..NRecords : claims[i] <= 1 /\ evals[i] <= claims[i]
  /\ \A w1, w2 \in Workers : w1 # w2 /\ wrec[w1] # 0 => wrec[w1] # wrec[w2]
  /\ cpc = "returned" => \A i \in 1..NRecords : claims[i] = 1 /\ evals[i] = 1

C2_Witness ==
  /\ cpc = "returned"
  /\ NRecords >= 2
  /\ started >= 2

\* C3: the returned list holds exactly one outcome for each accepted record
\* and nothing else: every HIT line occurs as often as accepted records
\* produce it, every entry is the HIT line of an accepted record, and the
\* list has at most N entries.
C3_ExactOutcomes ==
  cpc = "returned" =>
    /\ \A i \in Accepted :
         Count(found, simulate_check(records[i]).line)
           = Cardinality({j \in Accepted : simulate_check(records[j]) = simulate_check(records[i])})
    /\ \A k \in 1..Len(found) :
         \E i \in Accepted : simulate_check(records[i]).line = found[k]
    /\ Len(found) = Cardinality(Accepted)
    /\ Len(found) <= NRecords

C3_Witness ==
  /\ cpc = "returned"
  /\ started >= 2
  /\ Cardinality(Accepted) = 1
  /\ NRecords = 2
  /\ Len(found) = 1

\* C4: a run in which the evaluation of some record raised inside a worker
\* still completes: in every state after the fault the run has returned or
\* some thread can still take a step.
C4_FaultContained ==
  (\E w \in Workers : wres[w].tag = "raise") =>
    (cpc = "returned" \/ ENABLED Next)

C6_NoPutPastBarrier == [][(cpc \in PastBarrier) => (puts' = puts)]_vars

C6_Witness ==
  /\ cpc = "drain"
  /\ puts >= 2
  /\ \E w \in Workers : wpc[w] = "get"

\* C7: the number of worker threads started never exceeds min(W, N), hence
\* never N, and once the start loop is over it is exactly min(W, N).
C7_StartsMinWN ==
  /\ started <= Min2(threads, NRecords)
  /\ started <= NRecords
  /\ Cardinality({w \in Workers : wpc[w] # "unstarted"}) = started
  /\ cpc \notin {"put", "start"} => started = Min2(threads, NRecords)

C7_Witness ==
  /\ cpc = "returned"
  /\ NRecords >= 1
  /\ threads > NRecords
  /\ started = NRecords

\* C8: with no records, no worker is ever started, q.join() does not block
\* (the run can always step until it has returned), the result is empty and
\* the hits file keeps its content.
C8_EmptyInput ==
  NRecords = 0 =>
    /\ started = 0
    /\ \A w \in Workers : wpc[w] = "unstarted"
    /\ cpc = "join" => ENABLED Join
    /\ cpc # "returned" => ENABLED Next
    /\ found = <<>>
    /\ hitsFile = hits0

C8_Witness ==
  /\ NRecords = 0
  /\ threads >= 1
  /\ hits0 # <<>>
  /\ cpc = "returned"

\* Reports of booking attempts (the missing-file message is not one).
AttemptReports == SelectSeq(reports, LAMBDA r : r.kind # "input_not_found")

\* C9: when attempt-book runs with use_real while the flag is off, every
\* attempt made reports the configuration error (RuntimeError of the stub),
\* no appointment id is produced, the hits file keeps its content, and a
\* handler that returns has attempted every sampled line.
C9_ConfigErrorPerAttempt ==
  (use_real /\ ~enabled) =>
    /\ \A k \in 1..Len(AttemptReports) :
         /\ AttemptReports[k].kind = "real_failed"
         /\ AttemptReports[k].exc = "RuntimeError"
         /\ AttemptReports[k].appt = <<>>
    /\ hitsFile = hits0
    /\ (bpc = "returned" /\ listFile.exists) => Len(AttemptReports) = Len(sample)

Evaluated == {w \in Workers : wpc[w] \in {"out_put", "task_done"}}

\* The acceptance rule as the claim states it, in hundredths.
AcceptRule(r) == (Seed(r.code) % 100) > 85 \/ r.balance.v >= 120

\* C14: the outcome a worker obtains from simulate_check is accept exactly
\* when (sum of the identifier's character codes mod 100)/100 > 0.85 or
\* balance >= 120; two workers holding records with the same identifier
\* and balance obtain the same outcome, whatever the interleaving and the
\* other records; the returned list has one entry per record the rule accepts.
C14_DeterministicDecision ==
  /\ \A w \in Evaluated :
       (wres[w].tag = "hit") <=> AcceptRule(records[wrec[w]])
  /\ \A w1, w2 \in Evaluated :
       (/\ records[wrec[w1]].code = records[wrec[w2]].code
        /\ records[wrec[w1]].balance = records[wrec[w2]].balance)
         => wres[w1].tag = wres[w2].tag
  /\ cpc = "returned" =>
       Len(found) = Cardinality({i \in 1..NRecords : AcceptRule(records[i])})

C14_Witness ==
  \E w1, w2 \in Evaluated :
    /\ w1 # w2
    /\ records[wrec[w1]] = records[wrec[w2]]
    /\ records[wrec[w1]].balance.v = 120
    /\ wres[w1].tag = "hit"
    /\ wres[w2].tag = "hit"

\* C17: while a worker is inside simulate_check, every other worker that is
\* at its claim step or at its append step can take that step, and the
\* number of records under evaluation never exceeds min(W, N).
C17_NoLockWhileEvaluating ==
  /\ \A w1, w2 \in Workers :
       (w1 # w2 /\ wpc[w1] = "check") =>
         /\ wpc[w2] = "get" => ENABLED GetNowait(w2)
         /\ wpc[w2] = "out_put" => ENABLED OutPut(w2)
  /\ Cardinality({w \in Workers : wpc[w] = "check"}) <= Min2(threads, NRecords)

\* Two records are under evaluation at the same time.
C17_Witness ==
  /\ Min2(threads, NRecords) = 2
  /\ Cardinality({w \in Workers : wpc[w] = "check"}) = 2

\* C18: the outcomes drained so far followed by those still queued are the
\* outcomes in the order of their puts; the returned list is in that order
\* and the lines appended to the hits file are the same, in the same order.
C18_ArrivalOrder ==
  /\ found \o out_q = arrivals
  /\ cpc = "returned" => found = arrivals /\ hitsFile = hits0 \o arrivals

\* The arrival order differs from the input order.
C18_Witness ==
  /\ cpc = "returned"
  /\ NRecords = 2
  /\ Len(found) = 2
  /\ found[1] # found[2]
  /\ found[1] = simulate_check(records[2]).line
  /\ found[2] = simulate_check(records[1]).line

\* C19: whenever the hits file has changed or the call has returned, every
\* input record has been marked processed; before the barrier is passed the
\* hits file has the content it had on entry and found is empty.
C19_NoPartialExposure ==
  /\ (hitsFile # hits0 \/ cpc = "returned") =>
       (dones = NRecords /\ unfinished = 0 /\ q = <<>>)
  /\ cpc \notin PastBarrier => (hitsFile = hits0 /\ found = <<>>)

C19_Witness ==
  /\ cpc = "returned"
  /\ NRecords = 2
  /\ hitsFile # hits0

\* Records claimed, evaluated and released by their worker.
Released == {i \in 1..NRecords : claims[i] = 1 /\ \A w \in Workers : wrec[w] # i}

\* C20 as stated: in every state the unfinished-task count is N minus the
\* number of task_done calls, never negative, and task_done has been called
\* once for each record a worker has finished.
C20_CountIsNMinusDone ==
  /\ unfinished = NRecords - dones
  /\ unfinished >= 0
  /\ dones = Cardinality(Released)

\* Records put on the task queue so far.
Enqueued == IF cpc = "put" THEN Len(q) ELSE NRecords

\* C20 amended: the unfinished-task count is the number of records put on
\* the queue so far minus the number of task_done calls (N minus that number
\* once the put loop is over); it is never negative and task_done never
\* raises; task_done has been called exactly once for each record released
\* by its worker, and a worker at task_done has evaluated its record and,
\* for a hit, put it on the result queue.
C20_Accounting ==
  /\ unfinished = Enqueued - dones
  /\ cpc # "put" => unfinished = NRecords - dones
  /\ unfinished >= 0
  /\ dones <= NRecords
  /\ dones = Cardinality(Released)
  /\ \A w \in Workers : wpc[w] # "died"
  /\ \A w \in Workers : wpc[w] = "task_done" => evals[wrec[w]] = 1
  /\ puts = Cardinality({i \in Accepted :
              /\ evals[i] = 1
              /\ \A w \in Workers : wrec[w] = i => wpc[w] # "out_put"})

C20_Witness ==
  /\ NRecords = 2
  /\ started = 2
  /\ dones = 1
  /\ unfinished = 1
  /\ \E w \in Workers : wpc[w] = "task_done"

\* A line with fewer than 4 fields; a line whose 4th field is no number.
ShortLine(l) == Len(Split(l, "|")) < 4

BadBalanceLine(l) == ~ShortLine(l) /\ ~ParseInt(LStrip(Split(l, "|")[4], "$")).ok

\* C15: when attempt-book runs with use_real and the flag on, every attempt
\* reports the not-implemented error, that error never leaves the handler,
\* no line is appended to the hits file, and when the handler stops it has
\* attempted all min(attempts, number of lines) sampled lines (stated for
\* attempts >= 0 and files in which every 4th field is a number).
C15_NotImplementedPerAttempt ==
  (/\ use_real /\ enabled /\ attempts >= 0
   /\ \A k \in 1..Len(lines) : ~BadBalanceLine(lines[k])) =>
    /\ \A k \in 1..Len(AttemptReports) :
         /\ AttemptReports[k].kind = "real_failed"
         /\ AttemptReports[k].exc = "NotImplementedError"
    /\ exc \notin {"NotImplementedError", "RuntimeError"}
    /\ hitsFile = hits0
    /\ (bpc \in {"returned", "aborted"} /\ listFile.exists) =>
         Len(AttemptReports) = Min2(attempts, Len(lines))

\* C11: in simulate-check and in attempt-book a line with fewer than 4
\* fields is skipped and does not abort the command (stated for
\* attempts >= 0 and files whose lines with 4 fields carry a number).
C11_ShortLineSkipped ==
  (/\ cmd \in {"simulate-check", "attempt-book"}
   /\ attempts >= 0
   /\ \E k \in 1..Len(lines) : ShortLine(lines[k])
   /\ \A k \in 1..Len(lines) : ~BadBalanceLine(lines[k])) =>
    /\ exc = "none"
    /\ hpc # "aborted"
    /\ bpc # "aborted"

\* C12: a command that ends in an input error (missing file, malformed
\* line) leaves the hits file as it was before the command.
C12_InputErrorLeavesHits ==
  (/\ cmd \in {"simulate-check", "attempt-book"}
   /\ \/ exc \in {"IndexError", "ValueError"}
      \/ \E k \in 1..Len(reports) : reports[k].kind = "input_not_found") =>
    hitsFile = hits0

IsPrefix(s, t) == Len(s) <= Len(t) /\ SubSeq(t, 1, Len(s)) = s

\* C13: every step leaves the hits file as it was or extends it at the end,
\* so its content before a command (hits0) is a prefix of its content at any
\* later point of the command; no step of generate changes it.
C13_HitsOnlyGrow ==
  [][/\ IsPrefix(hitsFile, hitsFile')
     /\ IsPrefix(hits0', hitsFile')
     /\ (cmd = "generate" \/ cmd' = "generate") => (hitsFile' = hitsFile)]_vars

C13_Witness ==
  /\ ncmds = 2
  /\ genRecs # <<>>
  /\ CommandOver
  /\ cmd \in {"simulate-check", "attempt-book"}
  /\ hits0 # <<>>
  /\ Len(hitsFile) > Len(hits0)

\* C16: the records loaded by the reader from a file written by generate are
\* the generated records, field by field, and the load does not fail.
C16_RoundTrip ==
  cmd = "simulate-check" =>
    /\ hpc # "aborted"
    /\ hpc = "pool" => records = genRecs

C16_Witness ==
  /\ cmd = "simulate-check"
  /\ hpc = "pool"
  /\ Len(genRecs) = 2
  /\ genRecs[1].balance = PyInt(0)
  /\ genRecs[2].balance = PyInt(280)
  /\ genRecs[1].code # genRecs[2].code
  /\ records = genRecs

====
